---- MODULE Spec2Model ----
(***************************************************************************)
(* A model of the RESP decoder (src/src/parser.rs), the command            *)
(* interpreter (src/src/commands.rs) and the connection acceptor and       *)
(* handler (src/src/main.rs).                                              *)
(*                                                                         *)
(* Bytes are their numeric values; a byte string (&[u8], String) is a      *)
(* sequence of bytes.  Offsets are 0-based as in the Rust source; the      *)
(* helpers Slice/Position translate to TLA+'s 1-based sequences.           *)
(***************************************************************************)
EXTENDS Integers, Sequences, FiniteSets, TLC

VARIABLES
    oc,         \* the build checks integer overflow (debug) or wraps (release)
    \* one RedisParser and the command made from what it decoded
    full,       \* RedisParser::full
    cursor,     \* RedisParser::cursor
    sent,       \* what the buffer's sender encoded (see Cases)
    res,        \* the outcome of the latest call of next()
    calls,      \* the number of calls of next() so far
    cmd,        \* the outcome of RedisCommands::try_from on the decoded Value
    \* the server
    proc,       \* "running", or "aborted" once the process was aborted
    workers,    \* the number of worker threads of the runtime
    handles,    \* main's Vec of JoinHandles, as connection ids in spawn order
    lastAccept, \* what the latest item of listener.incoming() was
    pc,         \* each connection task's position
    buf,        \* each handler's &buffer[..s] of the latest read
    resp,       \* the bytes each handler is about to write
    out,        \* the bytes each handler wrote since its latest read returned
    owed,       \* each handler's commands read and not yet answered
    mainpc,     \* main's position: "accept", "join", "returned_ok", "returned_err"
    joined      \* the number of handles main has awaited

parserVars == <<full, cursor, sent, res, calls, cmd>>
mainVars == <<mainpc, joined>>
serverVars == <<proc, workers, handles, lastAccept, pc, buf, resp, out, owed, mainpc, joined>>
vars == <<oc, full, cursor, sent, res, calls, cmd,
          proc, workers, handles, lastAccept, pc, buf, resp, out, owed, mainpc, joined>>

(***************************************************************************)
(* Byte constants of the wire format.                                      *)
(***************************************************************************)
CR == 13
LF == 10
Colon == 58
Dollar == 36
Plus == 43
Minus == 45
Star == 42
Zero == 48
BadByte == 255
I32Max == 2147483647
I32Min == (-I32Max) - 1

IsDigit(b) == b >= Zero /\ b <= Zero + 9

(***************************************************************************)
(* Slices and searches of the Rust standard library, by what they do.      *)
(***************************************************************************)
\* s[from..to] for 0 <= from <= to <= Len(s)
Slice(s, from, to) == SubSeq(s, from + 1, to)

\* s[from..]
SliceFrom(s, from) == SubSeq(s, from + 1, Len(s))

\* s.iter().position(|b| b == &x): the 0-based index of the first x, -1 for None
Position(s, x) ==
    IF \E i \in 1..Len(s) : s[i] = x
    THEN (CHOOSE i \in 1..Len(s) : s[i] = x /\ \A j \in 1..(i - 1) : s[j] # x) - 1
    ELSE -1

\* std::str::from_utf8(s).is_ok().  Every byte the model draws is ASCII or
\* 0xFF; 0xFF occurs in no well-formed UTF-8 sequence and ASCII bytes are
\* always well-formed, so validity is "no byte above 127".
Utf8Ok(s) == \A i \in 1..Len(s) : s[i] < 128

\* char::to_lowercase on the ASCII range
LowerByte(b) == IF b >= 65 /\ b <= 90 THEN b + 32 ELSE b

\* str::to_lowercase
ToLowercase(s) == [i \in 1..Len(s) |-> LowerByte(s[i])]

(***************************************************************************)
(* Decimal numbers.                                                        *)
(***************************************************************************)
RECURSIVE ToDec(_)
\* format!("{}", n) for an unsigned n
ToDec(n) == IF n < 10 THEN <<Zero + n>> ELSE ToDec(n \div 10) \o <<Zero + (n % 10)>>

RECURSIVE AccPos(_, _)
\* checked accumulation of decimal digits upward: [ok, n]
AccPos(ds, acc) ==
    IF ds = <<>> THEN [ok |-> TRUE, n |-> acc]
    ELSE LET d == Head(ds) - Zero IN
         IF ~IsDigit(Head(ds)) THEN [ok |-> FALSE, n |-> 0]
         ELSE IF acc > (I32Max - d) \div 10 THEN [ok |-> FALSE, n |-> 0]
         ELSE AccPos(Tail(ds), acc * 10 + d)

RECURSIVE AccNeg(_, _)
\* checked accumulation of decimal digits downward: [ok, n]
AccNeg(ds, acc) ==
    IF ds = <<>> THEN [ok |-> TRUE, n |-> acc]
    ELSE LET d == Head(ds) - Zero IN
         IF ~IsDigit(Head(ds)) THEN [ok |-> FALSE, n |-> 0]
         ELSE IF acc < (I32Min + d + 9) \div 10 THEN [ok |-> FALSE, n |-> 0]
         ELSE AccNeg(Tail(ds), acc * 10 - d)

\* str::parse::<i32>(): an optional single sign, then one or more digits,
\* the value within the i32 range
ParseI32(s) ==
    IF s = <<>> THEN [ok |-> FALSE, n |-> 0]
    ELSE IF Len(s) = 1 /\ s[1] \in {Plus, Minus} THEN [ok |-> FALSE, n |-> 0]
    ELSE IF s[1] = Plus THEN AccPos(Tail(s), 0)
    ELSE IF s[1] = Minus THEN AccNeg(Tail(s), 0)
    ELSE AccPos(s, 0)

RECURSIVE StripZeros(_)
StripZeros(ds) ==
    IF Len(ds) > 1 /\ Head(ds) = Zero THEN StripZeros(Tail(ds)) ELSE ds

RECURSIVE DecLess(_, _)
\* a < b for two decimal digit strings without leading zeros
DecLess(a, b) ==
    IF Len(a) # Len(b) THEN Len(a) < Len(b)
    ELSE IF a = <<>> THEN FALSE
    ELSE IF Head(a) # Head(b) THEN Head(a) < Head(b)
    ELSE DecLess(Tail(a), Tail(b))

RECURSIVE DecValue(_, _)
DecValue(ds, acc) ==
    IF ds = <<>> THEN acc ELSE DecValue(Tail(ds), acc * 10 + (Head(ds) - Zero))

\* 2^64 = 18446744073709551616, as digits
U64Limit ==
    <<49,56,52,52,54,55,52,52,48,55,51,55,48,57,53,53,49,54,49,54>>

\* str::parse::<usize>() on a 64-bit target: an optional '+', then one or
\* more digits, the value below 2^64.  The value is kept as its digits
\* (without leading zeros), since it may exceed the model checker's integers.
ParseUsize(s) ==
    LET ds == IF s # <<>> /\ s[1] = Plus THEN Tail(s) ELSE s IN
    IF ds = <<>> \/ \E i \in 1..Len(ds) : ~IsDigit(ds[i])
    THEN [ok |-> FALSE, digits |-> <<>>]
    ELSE IF ~DecLess(StripZeros(ds), U64Limit) THEN [ok |-> FALSE, digits |-> <<>>]
    ELSE [ok |-> TRUE, digits |-> StripZeros(ds)]

(***************************************************************************)
(* Value (parser.rs:5-10).  Every Value is a record of the same shape; the *)
(* fields a variant does not carry are left at their defaults.             *)
(***************************************************************************)
VString(x) == [t |-> "String", s |-> x, n |-> 0, a |-> <<>>]
VInteger(x) == [t |-> "Integer", s |-> <<>>, n |-> x, a |-> <<>>]
VArray(x) == [t |-> "Array", s |-> <<>>, n |-> 0, a |-> x]
VError(x) == [t |-> "Error", s |-> x, n |-> 0, a |-> <<>>]
\* the placeholder carried by an outcome that holds no Value
NoValue == [t |-> "None", s |-> <<>>, n |-> 0, a |-> <<>>]

\* Value::encode: Ok(bytes) for a String, Err for every other variant
Encode(v) ==
    IF v.t = "String"
    THEN [ok |-> TRUE,
          bytes |-> <<Dollar>> \o ToDec(Len(v.s)) \o <<CR, LF>> \o v.s \o <<CR, LF>>]
    ELSE [ok |-> FALSE, bytes |-> <<>>]

\* Value::to_string: Some(text) for String and Error, None otherwise
ValueToString(v) ==
    IF v.t \in {"String", "Error"} THEN [some |-> TRUE, s |-> v.s]
    ELSE [some |-> FALSE, s |-> <<>>]

(***************************************************************************)
(* Outcomes of a decode call.  kind is                                     *)
(*   "ok"    - Ok(val), the cursor advanced to cursor;                     *)
(*   "err"   - Err(miette error msg), with a label at byte offset off when *)
(*             labelled;                                                   *)
(*   "panic" - the call panicked (the thread unwinds);                     *)
(*   "abort" - the allocator could not serve the request and the process   *)
(*             is aborted.                                                 *)
(* cursor is the decoder's cursor field when the call ended.  off is the   *)
(* usize the label was built from; a negative off stands for the wrapped   *)
(* value 2^64 + off, which the model checker's integers cannot hold.       *)
(***************************************************************************)
Ok(v, c) ==
    [kind |-> "ok", val |-> v, cursor |-> c, labelled |-> FALSE, off |-> 0, msg |-> ""]
Err(m, c) ==
    [kind |-> "err", val |-> NoValue, cursor |-> c, labelled |-> FALSE, off |-> 0, msg |-> m]
Panic(m, c) ==
    [kind |-> "panic", val |-> NoValue, cursor |-> c, labelled |-> FALSE, off |-> 0, msg |-> m]
Abort(m, c) ==
    [kind |-> "abort", val |-> NoValue, cursor |-> c, labelled |-> FALSE, off |-> 0, msg |-> m]

\* miette!(labels = vec![LabeledSpan::at_offset(a - b, "here")], m): the usize
\* subtraction a - b panics when it underflows in a build with overflow
\* checks (chk) and wraps otherwise
ErrAt(m, a, b, c, chk) ==
    IF a < b /\ chk THEN Panic("attempt to subtract with overflow", c)
    ELSE [kind |-> "err", val |-> NoValue, cursor |-> c, labelled |-> TRUE,
          off |-> a - b, msg |-> m]

\* 2^58, as digits: Vec::<Value>::with_capacity(n) panics ("capacity
\* overflow") when n * size_of::<Value>() = n * 32 exceeds isize::MAX
CapacityLimit == <<50,56,56,50,51,48,51,55,54,49,53,49,55,49,49,55,52,52>>

\* 2^51, as digits: n * 32 bytes is then at least 2^56 bytes, more than the
\* user address space of any 64-bit target, so the allocation fails and
\* handle_alloc_error aborts the process.  Smaller requests are taken to
\* succeed.
AllocLimit == <<50,50,53,49,55,57,57,56,49,51,54,56,53,50,52,56>>

\* Vec::with_capacity(length)
WithCapacity(digits) ==
    IF ~DecLess(digits, CapacityLimit) THEN "panic"
    ELSE IF ~DecLess(digits, AllocLimit) THEN "abort"
    ELSE "ok"

(***************************************************************************)
(* RedisParser (parser.rs:62-203): full is the original buffer, cursor the *)
(* unconsumed suffix, self the two together.  chk tells whether the build  *)
(* checks integer overflow.                                                *)
(***************************************************************************)
\* parse_int, returning the integer without moving the cursor
ParseInt_KeepCursor(self, chk) ==
    LET input == self.cursor
        end == Position(input, LF)
    IN
    IF end = -1 THEN Err("failed to find \\n terminator", self.cursor)
    ELSE
    LET sub_bytes == Slice(input, 0, end) IN
    IF Len(sub_bytes) <= 1 THEN Panic("index out of bounds", self.cursor)
    ELSE
    LET sign == sub_bytes[2]
        offset == IF sign = Plus \/ sign = Minus THEN 1 ELSE 0
        sgn == IF sign = Minus THEN -1 ELSE 1
        pos == Position(sub_bytes, CR)
        value ==
            IF pos = -1 THEN [ok |-> FALSE, n |-> 0]
            ELSE IF ~(1 + offset <= pos /\ pos <= Len(sub_bytes))
            THEN [ok |-> FALSE, n |-> 0]
            ELSE IF ~Utf8Ok(Slice(sub_bytes, 1 + offset, pos))
            THEN [ok |-> FALSE, n |-> 0]
            ELSE ParseI32(Slice(sub_bytes, 1 + offset, pos))
    IN
    IF ~value.ok
    THEN ErrAt("failed to parse to int", Len(self.full) - Len(self.cursor), offset, self.cursor, chk)
    ELSE IF sgn = -1 /\ value.n = I32Min
    THEN IF chk THEN Panic("attempt to multiply with overflow", SliceFrom(self.cursor, end + 1))
         ELSE Ok(VInteger(I32Min), self.cursor)
    ELSE Ok(VInteger(sgn * value.n), self.cursor)

\* parse_int
ParseInt(self, chk) ==
    LET input == self.cursor
        end == Position(input, LF)
    IN
    IF end = -1 THEN Err("failed to find \\n terminator", self.cursor)
    ELSE
    LET sub_bytes == Slice(input, 0, end) IN
    IF Len(sub_bytes) <= 1 THEN Panic("index out of bounds", self.cursor)
    ELSE
    LET sign == sub_bytes[2]
        offset == IF sign = Plus \/ sign = Minus THEN 1 ELSE 0
        sgn == IF sign = Minus THEN -1 ELSE 1
        pos == Position(sub_bytes, CR)
        value ==
            IF pos = -1 THEN [ok |-> FALSE, n |-> 0]
            ELSE IF ~(1 + offset <= pos /\ pos <= Len(sub_bytes))
            THEN [ok |-> FALSE, n |-> 0]
            ELSE IF ~Utf8Ok(Slice(sub_bytes, 1 + offset, pos))
            THEN [ok |-> FALSE, n |-> 0]
            ELSE ParseI32(Slice(sub_bytes, 1 + offset, pos))
    IN
    IF ~value.ok
    THEN ErrAt("failed to parse to int", Len(self.full) - Len(self.cursor), offset, self.cursor, chk)
    ELSE IF sgn = -1 /\ value.n = I32Min
    THEN IF chk THEN Panic("attempt to multiply with overflow", SliceFrom(self.cursor, end + 1))
         ELSE Ok(VInteger(I32Min), SliceFrom(self.cursor, end + 1))
    ELSE Ok(VInteger(sgn * value.n), SliceFrom(self.cursor, end + 1))

\* parse_string
ParseString(self, start_char, chk) ==
    LET input == self.cursor
        end_length == Position(input, start_char)
    IN
    IF end_length = -1 THEN Err("failed to find start char", self.cursor)
    ELSE
    LET end_string == Position(SliceFrom(input, end_length + 1), CR) IN
    IF end_string = -1 THEN Err("failed to find second \\r terminator", self.cursor)
    ELSE
    LET s == Slice(input, end_length + 1, end_length + 1 + end_string) IN
    IF ~Utf8Ok(s)
    THEN ErrAt("failed to parse bytes as utf8",
               Len(self.full) - Len(self.cursor), end_length + 1, self.cursor, chk)
    ELSE IF end_length + 1 + end_string + 2 > Len(self.cursor)
    THEN Panic("range start index out of range", self.cursor)
    ELSE Ok(VString(s), SliceFrom(self.cursor, end_length + 1 + end_string + 2))

RECURSIVE ParseValue(_, _)
RECURSIVE ParseElems(_, _, _, _)

\* the loop of parse_array: for _ in 0..length { output.push(self.parse_value()?) }
ParseElems(self, length, output, chk) ==
    IF length = 0 THEN Ok(VArray(output), self.cursor)
    ELSE LET r == ParseValue(self, chk) IN
         IF r.kind # "ok" THEN r
         ELSE ParseElems([self EXCEPT !.cursor = r.cursor], length - 1, Append(output, r.val), chk)

\* The number of iterations 0..length asks for.  A length of ten digits or
\* more exceeds the model checker's integers; every element that decodes
\* consumes at least one byte, so such a loop ends in an error within
\* Len(cursor) + 1 iterations and is run for that many.
Iterations(digits, rest) ==
    IF Len(digits) <= 9 THEN DecValue(digits, 0) ELSE Len(rest) + 1

\* parse_array
ParseArray(self, chk) ==
    LET input == self.cursor
        end_length == Position(input, CR)
    IN
    IF end_length = -1 THEN Err("missing \\r terminator", self.cursor)
    ELSE
    LET length ==
            IF ~(1 <= end_length /\ end_length <= Len(input))
            THEN [ok |-> FALSE, digits |-> <<>>]
            ELSE IF ~Utf8Ok(Slice(input, 1, end_length))
            THEN [ok |-> FALSE, digits |-> <<>>]
            ELSE ParseUsize(Slice(input, 1, end_length))
    IN
    IF ~length.ok
    THEN ErrAt("failed to parse input to array length",
               Len(self.full) - Len(self.cursor), 1, self.cursor, chk)
    ELSE IF end_length + 2 > Len(self.cursor)
    THEN Panic("range start index out of range", self.cursor)
    ELSE
    LET advanced == SliceFrom(self.cursor, end_length + 2) IN
    CASE WithCapacity(length.digits) = "panic" -> Panic("capacity overflow", advanced)
      [] WithCapacity(length.digits) = "abort" -> Abort("memory allocation failed", advanced)
      [] OTHER ->
            ParseElems([self EXCEPT !.cursor = advanced],
                       Iterations(length.digits, advanced), <<>>, chk)

\* parse_value
ParseValue(self, chk) ==
    IF self.cursor = <<>> THEN Err("empty input", self.cursor)
    ELSE
    CASE Head(self.cursor) = Colon -> ParseInt(self, chk)
      [] Head(self.cursor) = Dollar -> ParseString(self, LF, chk)
      [] Head(self.cursor) = Plus -> ParseString(self, Plus, chk)
      [] Head(self.cursor) = Minus ->
            LET r == ParseString(self, Minus, chk) IN
            IF r.kind = "ok" THEN Ok(VError(r.val.s), r.cursor) ELSE r
      [] Head(self.cursor) = Star -> ParseArray(self, chk)
      [] OTHER ->
            ErrAt("failed to parse input as value", Len(self.full) - Len(self.cursor), 0, self.cursor, chk)

(***************************************************************************)
(* RedisCommands (commands.rs:6-9) and its TryFrom<Value>.                 *)
(***************************************************************************)
PingName == <<112, 105, 110, 103>>
EchoName == <<101, 99, 104, 111>>

\* got is the {x} of the message "expected commend, got {x}", empty elsewhere
NoCommand == [kind |-> "none", payload |-> <<>>, msg |-> "", got |-> <<>>]
Ping == [kind |-> "Ping", payload |-> <<>>, msg |-> "", got |-> <<>>]
Echo(x) == [kind |-> "Echo", payload |-> x, msg |-> "", got |-> <<>>]
CmdErr(m) == [kind |-> "err", payload |-> <<>>, msg |-> m, got |-> <<>>]
CmdErrGot(x) == [kind |-> "err", payload |-> <<>>, msg |-> "expected commend, got", got |-> x]

\* RedisCommands::try_from, storing the argument's text as it is
TryFrom_RawEcho(value) ==
    IF value.t = "Array"
    THEN LET values == value.a
             command == IF values = <<>> THEN [some |-> FALSE, s |-> <<>>]
                        ELSE ValueToString(values[1])
         IN
         IF ~command.some THEN CmdErr("not a command")
         ELSE IF ToLowercase(command.s) = PingName THEN Ping
         ELSE IF ToLowercase(command.s) = EchoName
         THEN IF Len(values) < 2 \/ ~Encode(values[2]).ok
              THEN CmdErr("missing echo argument")
              ELSE Echo(values[2].s)
         ELSE CmdErrGot(ToLowercase(command.s))
    ELSE CmdErr("incorrect command")

\* RedisCommands::try_from, taking the argument of echo by to_string, which
\* an Error has as well
TryFrom_TextEcho(value) ==
    IF value.t = "Array"
    THEN LET values == value.a
             command == IF values = <<>> THEN [some |-> FALSE, s |-> <<>>]
                        ELSE ValueToString(values[1])
         IN
         IF ~command.some THEN CmdErr("not a command")
         ELSE IF ToLowercase(command.s) = PingName THEN Ping
         ELSE IF ToLowercase(command.s) = EchoName
         THEN IF Len(values) < 2 \/ ~ValueToString(values[2]).some
              THEN CmdErr("missing echo argument")
              ELSE Echo(Encode(VString(values[2].s)).bytes)
         ELSE CmdErrGot(ToLowercase(command.s))
    ELSE CmdErr("incorrect command")

\* RedisCommands::try_from
TryFrom(value) ==
    IF value.t = "Array"
    THEN LET values == value.a
             command == IF values = <<>> THEN [some |-> FALSE, s |-> <<>>]
                        ELSE ValueToString(values[1])
         IN
         IF ~command.some THEN CmdErr("not a command")
         ELSE IF ToLowercase(command.s) = PingName THEN Ping
         ELSE IF ToLowercase(command.s) = EchoName
         THEN IF Len(values) < 2 \/ ~Encode(values[2]).ok
              THEN CmdErr("missing echo argument")
              ELSE Echo(Encode(values[2]).bytes)
         ELSE CmdErrGot(ToLowercase(command.s))
    ELSE CmdErr("incorrect command")

(***************************************************************************)
(* The buffers handed to the decoder.  A case is a buffer together with    *)
(* what its sender encoded: units, the Values of the well-formed units the *)
(* buffer is made of (wf), and the family (fam) the case belongs to.       *)
(***************************************************************************)
MaxRawLen == 4
MaxPayload == 2
MaxCount == 2

Seqs(A, n) == UNION {[1..k -> A] : k \in 0..n}

RECURSIVE Concat(_)
Concat(ss) == IF ss = <<>> THEN <<>> ELSE Head(ss) \o Concat(Tail(ss))

\* the decimal form of an i32
ToDecI32(n) ==
    IF n = I32Min THEN <<Minus>> \o ToDec(I32Max \div 10) \o <<Zero + 8>>
    ELSE IF n < 0 THEN <<Minus>> \o ToDec(-n)
    ELSE ToDec(n)

RECURSIVE Wire(_)
\* the wire form of a Value (spec section 6; the tests of parser.rs)
Wire(v) ==
    CASE v.t = "Integer" -> <<Colon>> \o ToDecI32(v.n) \o <<CR, LF>>
      [] v.t = "String" ->
            <<Dollar>> \o ToDec(Len(v.s)) \o <<CR, LF>> \o v.s \o <<CR, LF>>
      [] v.t = "Error" -> <<Minus>> \o v.s \o <<CR, LF>>
      [] v.t = "Array" ->
            <<Star>> \o ToDec(Len(v.a)) \o <<CR, LF>>
                \o Concat([i \in 1..Len(v.a) |-> Wire(v.a[i])])

Case(b, u, w, f) == [bytes |-> b, units |-> u, wf |-> w, fam |-> f]

\* every byte string of up to MaxRawLen bytes over the markers, the
\* terminator bytes, a digit, a letter and a byte that is not UTF-8
RawAlphabet == {Colon, Dollar, Plus, Minus, Star, CR, LF, Zero + 1, 97, BadByte}
RawCases == {Case(b, <<>>, FALSE, "raw") : b \in Seqs(RawAlphabet, MaxRawLen)}

\* integers: the decimal forms of values of the i32 range, bounds included,
\* with and without an explicit '+' ...
IntValues == {0, 7, -7, 100, -100, I32Max, I32Max - 1, I32Min, I32Min + 1}
IntCases ==
    {Case(Wire(VInteger(n)), <<VInteger(n)>>, TRUE, "int") : n \in IntValues}
    \cup {Case(<<Colon, Plus>> \o ToDec(n) \o <<CR, LF>>, <<VInteger(n)>>, TRUE, "int") :
            n \in {k \in IntValues : k >= 0}}

\* ... and texts that are no integer of the range: values one past either
\* bound, 2^32, a second sign, no digits, a letter, a fraction, a blank
BadIntTexts ==
    { ToDec(I32Max \div 10) \o <<Zero + 8>>,
      <<Minus>> \o ToDec(I32Max \div 10) \o <<Zero + 9>>,
      ToDec(I32Max \div 10) \o <<Zero + 9, Zero + 6>>,
      <<Minus, Minus, Zero + 5>>, <<Plus, Minus, Zero + 5>>,
      <<Minus, Plus, Zero + 5>>, <<Plus, Plus, Zero + 5>>,
      <<Minus, Minus>> \o ToDec(I32Max \div 10) \o <<Zero + 8>>,
      <<Plus>>, <<Minus>>, <<Zero + 1, 97>>, <<97>>,
      <<Zero + 1, 46, Zero + 5>>, <<32, Zero + 1>> }
BadIntCases ==
    {Case(<<Colon>> \o t \o <<CR, LF>>, <<>>, FALSE, "int") : t \in BadIntTexts}

\* bulk strings: every payload of up to MaxPayload bytes, under its true
\* length (the bytes Value::encode produces), under a length one too large
\* and under a length that is no number
PayloadAlphabet == {97, CR, LF}
Payloads == Seqs(PayloadAlphabet, MaxPayload)
BulkCases ==
    {Case(Wire(VString(x)), <<VString(x)>>, TRUE, "bulk") : x \in Payloads}
    \cup {Case(<<Dollar>> \o ToDec(Len(x) + 1) \o <<CR, LF>> \o x \o <<CR, LF>>,
               <<>>, FALSE, "bulk") : x \in Payloads}
    \cup {Case(<<Dollar, 97>> \o <<CR, LF>> \o x \o <<CR, LF>>,
               <<>>, FALSE, "bulk") : x \in Payloads}
    \cup {Case(<<Dollar>> \o ToDec(Len(x)) \o <<CR, LF>> \o x \o <<BadByte, CR, LF>>,
               <<>>, FALSE, "bulk") : x \in Payloads}

\* arrays of up to MaxCount well-formed elements: integers, strings,
\* errors and arrays
ElemValues ==
    { VInteger(1), VInteger(-50), VString(<<97>>), VString(<<CR>>), VError(<<99>>),
      VArray(<<>>), VArray(<<VInteger(2), VError(<<87>>)>>) }
ArrayCases ==
    {Case(Wire(VArray(e)), <<VArray(e)>>, TRUE, "array") : e \in Seqs(ElemValues, MaxCount)}

\* array headers whose count is no usable number
BadArrayCases ==
    { Case(<<Star>> \o t \o <<CR, LF, Colon, Zero + 1, CR, LF>>, <<>>, FALSE, "array") :
        t \in { <<Plus, Zero + 1>>, <<Minus, Zero + 1>>, <<97>>, <<>>, <<Zero + 2>>,
                U64Limit, AllocLimit, CapacityLimit,
                <<Zero + 1, Zero, Zero, Zero, Zero, Zero, Zero, Zero, Zero, Zero, Zero>> } }

\* commands: arrays whose first element names a command
CommandNames ==
    { <<80, 73, 78, 71>>, PingName, <<80, 105, 78, 103>>,
      <<69, 67, 72, 79>>, EchoName, <<101, 67, 104, 79>>,
      <<112, 111, 110, 103>>, <<112, 105, 110, 103, 115>>, <<>> }
CommandArgs ==
    { <<>>, <<VString(<<104, 105>>)>>, <<VString(<<>>)>>, <<VInteger(1)>>,
      <<VError(<<101>>)>>, <<VArray(<<>>)>>,
      <<VString(<<104, 105>>), VString(<<120>>)>> }
CommandCases ==
    { Case(Wire(VArray(<<h>> \o r)), <<VArray(<<h>> \o r)>>, TRUE, "command") :
        h \in {VString(x) : x \in CommandNames} \cup {VError(x) : x \in CommandNames},
        r \in CommandArgs }
    \cup { Case(Wire(VArray(<<h>> \o r)), <<VArray(<<h>> \o r)>>, TRUE, "command") :
             h \in {VInteger(1), VArray(<<VString(PingName)>>)}, r \in CommandArgs }

\* buffers of two well-formed units
PairCases ==
    { Case(Wire(u) \o Wire(v), <<u, v>>, TRUE, "pair") : u \in ElemValues, v \in ElemValues }

Cases ==
    RawCases \cup IntCases \cup BadIntCases \cup BulkCases \cup ArrayCases
        \cup BadArrayCases \cup CommandCases \cup PairCases

(***************************************************************************)
(* The decoder as a state machine: a RedisParser is built over a buffer    *)
(* (RedisParser::new), next() is called on it, and a decoded Value is      *)
(* handed to RedisCommands::try_from.                                      *)
(***************************************************************************)
MaxCalls == 2
MaxConns == 2
MaxWorkers == 2

Conns == 1..MaxConns

NoOutcome ==
    [kind |-> "none", val |-> NoValue, cursor |-> <<>>, labelled |-> FALSE,
     off |-> 0, msg |-> ""]

\* the server before any connection
ServerIdle ==
    /\ proc = "running"
    /\ workers = 1
    /\ handles = <<>>
    /\ lastAccept = "none"
    /\ pc = [c \in Conns |-> "unborn"]
    /\ buf = [c \in Conns |-> <<>>]
    /\ resp = [c \in Conns |-> <<>>]
    /\ out = [c \in Conns |-> <<>>]
    /\ owed = [c \in Conns |-> 0]
    /\ mainpc = "accept"
    /\ joined = 0

\* RedisParser::new(input)
Init ==
    /\ oc \in BOOLEAN
    /\ \E i \in Cases :
        /\ full = i.bytes
        /\ cursor = i.bytes
        /\ sent = [units |-> i.units, wf |-> i.wf, fam |-> i.fam]
    /\ res = NoOutcome
    /\ calls = 0
    /\ cmd = NoCommand
    /\ ServerIdle

\* Iterator::next: Some(self.parse_value()).  A parser whose call panicked
\* or aborted the process is not called again.
IterNext ==
    /\ res.kind \notin {"panic", "abort"}
    /\ calls < MaxCalls
    /\ res' = ParseValue([full |-> full, cursor |-> cursor], oc)
    /\ cursor' = res'.cursor
    /\ calls' = calls + 1
    /\ cmd' = NoCommand
    /\ UNCHANGED <<oc, full, sent>>
    /\ UNCHANGED serverVars

\* value.try_into()
TryInto ==
    /\ res.kind = "ok"
    /\ cmd = NoCommand
    /\ cmd' = TryFrom(res.val)
    /\ UNCHANGED <<oc, full, cursor, sent, res, calls>>
    /\ UNCHANGED serverVars

Next == IterNext \/ TryInto

Spec == Init /\ [][Next]_vars

(***************************************************************************)
(* Properties of the decoder and the command interpreter, under Spec.      *)
(***************************************************************************)

\* C1: a decode call ends by returning a Value or an error; it never panics
\* (and never takes the process down).  Fails on the code: b":\n" indexes
\* sub_bytes[1] of a one-byte slice (parser.rs:111).
C1_DecodeReturns == res.kind \in {"none", "ok", "err"}

\* C2: decoding the bytes of v.encode() for a String v yields String(v) and
\* consumes all of them.  Fails on the code for a v that holds a CR: the
\* payload is cut at its first CR (parser.rs:147-154).
C2_StringRoundTrip ==
    (sent.fam = "bulk" /\ sent.wf /\ calls = 1 /\ full = Encode(sent.units[1]).bytes)
        => (res.kind = "ok" /\ res.val = sent.units[1] /\ cursor = <<>>)

\* the length field of a bulk string: the bytes between '$' and the first CR
LengthField(b) == Slice(b, 1, Position(b, CR))

\* C3: a bulk string decodes only if its length field is a decimal number
\* equal to the number of payload bytes.  Fails on the code: the length field
\* is skipped, never read (parser.rs:143-146).
C3_DeclaredLengthChecked ==
    (sent.fam = "bulk" /\ calls = 1 /\ res.kind = "ok")
        => /\ LengthField(full) # <<>>
           /\ \A i \in 1..Len(LengthField(full)) : IsDigit(LengthField(full)[i])
           /\ DecValue(LengthField(full), 0) = Len(res.val.s)

\* C4: n well-formed encoded Values after the header *n decode to the Array
\* of exactly those n Values, in order, nesting preserved.  Fails on the code
\* for an element the decoder gets wrong by itself (a bulk string holding a
\* CR, see C2 and C3).
C4_ArrayElementsInOrder ==
    (sent.fam = "array" /\ sent.wf /\ calls = 1)
        => (res.kind = "ok" /\ res.val = sent.units[1]
            /\ Len(res.val.a) = Len(sent.units[1].a))

\* C5: :<text> decodes to Integer(n) exactly when <text> is [+|-]digits with
\* n in the i32 range, and fails otherwise.  Fails on the code: the sign is
\* stripped and the rest parsed as a signed number again, so -2147483648 is
\* rejected and --5 is accepted (parser.rs:111-121, 134).
C5_IntegerExact ==
    (sent.fam = "int" /\ calls = 1)
        => IF sent.wf THEN res.kind = "ok" /\ res.val = sent.units[1]
           ELSE res.kind = "err"

\* equality of two texts ignoring the case of ASCII letters
FoldByte(b) == IF b >= 97 /\ b <= 122 THEN b - 32 ELSE b
EqIgnoreCase(x, y) ==
    Len(x) = Len(y) /\ \A i \in 1..Len(x) : FoldByte(x[i]) = FoldByte(y[i])

\* the bulk wire form of a text
BulkForm(x) == <<Dollar>> \o ToDec(Len(x)) \o <<CR, LF>> \o x \o <<CR, LF>>

\* C6: an Array whose first element is text equal to ping, ignoring case, is
\* interpreted as Ping; one whose first element is text equal to echo and
\* whose second element is String(s) as Echo(p), p the bulk wire form of s.
C6_CommandRecognition ==
    (cmd.kind # "none" /\ res.val.t = "Array" /\ Len(res.val.a) >= 1
        /\ res.val.a[1].t \in {"String", "Error"})
        => /\ EqIgnoreCase(res.val.a[1].s, PingName) => cmd = Ping
           /\ (EqIgnoreCase(res.val.a[1].s, EchoName) /\ Len(res.val.a) >= 2
                  /\ res.val.a[2].t = "String")
                => (cmd.kind = "Echo" /\ cmd.payload = BulkForm(res.val.a[2].s))

\* an ECHO in mixed case, given as an Error text, with a non-empty String
\* argument was interpreted
C6_Witness ==
    /\ cmd.kind = "Echo"
    /\ res.val.a[1] = VError(<<101, 67, 104, 79>>)
    /\ res.val.a[2] = VString(<<104, 105>>)
    /\ cmd.payload # res.val.a[2].s

(***************************************************************************)
(* The server (main.rs): the accept loop of main, which runs on the thread *)
(* that entered the runtime, and one task per accepted connection, run by  *)
(* the runtime's worker threads.  handle_connection blocks in read and in  *)
(* write_all, so a task holds its worker until it ends.                    *)
(*                                                                         *)
(* pc of a connection task: "unborn" (not accepted yet), "queued"          *)
(* (spawned, no worker runs it yet), "read" (in or before stream.read),    *)
(* "write" (in or before write_all), and the ways it ends: "returned_ok"   *)
(* (Ok(())), "failed" (Err of a decode or command error), "write_failed"   *)
(* (Err of write_all), "panicked" (the JoinHandle holds a JoinError) and   *)
(* "aborted" (its decode call aborted the process).  buf keeps the bytes   *)
(* of the latest read, out what was written since that read returned.      *)
(***************************************************************************)
Pong == <<Plus, 80, 79, 78, 71, CR, LF>>

\* what a peer may send in one read: a PING, an ECHO hi, the two in one
\* buffer, nothing (end of stream), an array that names no command, a byte
\* that starts no Value, and two buffers the decoder faults on
ReqPing == Wire(VArray(<<VString(<<80, 73, 78, 71>>)>>))
ReqEcho == Wire(VArray(<<VString(<<69, 67, 72, 79>>), VString(<<104, 105>>)>>))
ReqTwo == ReqPing \o ReqEcho
ReqEof == <<>>
ReqNoCommand == Wire(VArray(<<VString(<<112, 111, 110, 103>>)>>))
ReqGarbage == <<97>>
ReqPanic == <<Colon, LF>>
ReqAbort == <<Star>> \o AllocLimit \o <<CR, LF>>
Requests ==
    {ReqPing, ReqEcho, ReqTwo, ReqEof, ReqNoCommand, ReqGarbage, ReqPanic, ReqAbort}

\* the match of handle_connection, with a PONG that lacks its terminator
Response_Unterminated(command) ==
    IF command.kind = "Ping" THEN <<Plus, 80, 79, 78, 71>> ELSE command.payload

\* the match of handle_connection: the bytes written for a command
Response(command) ==
    IF command.kind = "Ping" THEN Pong ELSE command.payload

\* the body of the loop, going back to read with the response still unwritten
HandleRead_SkipWrite(b, chk) ==
    LET r == ParseValue([full |-> b, cursor |-> b], chk) IN
    CASE r.kind = "abort" -> [pc |-> "aborted", resp |-> <<>>, command |-> FALSE]
      [] r.kind = "panic" -> [pc |-> "panicked", resp |-> <<>>, command |-> FALSE]
      [] r.kind = "err" -> [pc |-> "failed", resp |-> <<>>, command |-> FALSE]
      [] OTHER ->
            IF TryFrom(r.val).kind = "err"
            THEN [pc |-> "failed", resp |-> <<>>, command |-> FALSE]
            ELSE [pc |-> "read", resp |-> Response(TryFrom(r.val)), command |-> TRUE]

\* the body of the loop, answering a decode error with an error reply
\* instead of returning it
HandleRead_ReplyOnError(b, chk) ==
    LET r == ParseValue([full |-> b, cursor |-> b], chk) IN
    CASE r.kind = "abort" -> [pc |-> "aborted", resp |-> <<>>, command |-> FALSE]
      [] r.kind = "panic" -> [pc |-> "panicked", resp |-> <<>>, command |-> FALSE]
      [] r.kind = "err" -> [pc |-> "write", resp |-> <<Minus, 69, 82, 82, CR, LF>>, command |-> FALSE]
      [] OTHER ->
            IF TryFrom(r.val).kind = "err"
            THEN [pc |-> "failed", resp |-> <<>>, command |-> FALSE]
            ELSE [pc |-> "write", resp |-> Response(TryFrom(r.val)), command |-> TRUE]

\* The body of handle_connection's loop up to the write, for the bytes b
\* just read: where the task goes (to the write, or to its end: "failed" on
\* an Err of the decoder or of try_into, "panicked", "aborted"), the bytes
\* it is about to write, and whether a command was made.
HandleRead(b, chk) ==
    LET r == ParseValue([full |-> b, cursor |-> b], chk) IN
    CASE r.kind = "abort" -> [pc |-> "aborted", resp |-> <<>>, command |-> FALSE]
      [] r.kind = "panic" -> [pc |-> "panicked", resp |-> <<>>, command |-> FALSE]
      [] r.kind = "err" -> [pc |-> "failed", resp |-> <<>>, command |-> FALSE]
      [] OTHER ->
            IF TryFrom(r.val).kind = "err"
            THEN [pc |-> "failed", resp |-> <<>>, command |-> FALSE]
            ELSE [pc |-> "write", resp |-> Response(TryFrom(r.val)), command |-> TRUE]

ParserIdle ==
    /\ full = <<>>
    /\ cursor = <<>>
    /\ sent = [units |-> <<>>, wf |-> FALSE, fam |-> "none"]
    /\ res = NoOutcome
    /\ calls = 0
    /\ cmd = NoCommand

ServerInit ==
    /\ oc \in BOOLEAN
    /\ ParserIdle
    /\ proc = "running"
    /\ workers \in 1..MaxWorkers
    /\ handles = <<>>
    /\ lastAccept = "none"
    /\ pc = [c \in Conns |-> "unborn"]
    /\ buf = [c \in Conns |-> <<>>]
    /\ resp = [c \in Conns |-> <<>>]
    /\ out = [c \in Conns |-> <<>>]
    /\ owed = [c \in Conns |-> 0]
    /\ mainpc = "accept"
    /\ joined = 0

Running == {c \in Conns : pc[c] \in {"read", "write"}}

\* main, Ok(stream): spawn the task, push its handle, go on accepting
Accept ==
    /\ proc = "running"
    /\ mainpc = "accept"
    /\ Len(handles) < MaxConns
    /\ pc' = [pc EXCEPT ![Len(handles) + 1] = "queued"]
    /\ handles' = Append(handles, Len(handles) + 1)
    /\ lastAccept' = "ok"
    /\ UNCHANGED <<oc, proc, workers, buf, resp, out, owed>>
    /\ UNCHANGED parserVars
    /\ UNCHANGED mainVars

\* main, Err(e): print the error, go on accepting
AcceptErr ==
    /\ proc = "running"
    /\ mainpc = "accept"
    /\ lastAccept' = "err"
    /\ UNCHANGED <<oc, proc, workers, handles, pc, buf, resp, out, owed>>
    /\ UNCHANGED parserVars
    /\ UNCHANGED mainVars

\* a free worker thread starts to run a spawned task; once main returned
\* the runtime shuts down and starts no further task
Start(c) ==
    /\ proc = "running"
    /\ mainpc \in {"accept", "join"}
    /\ pc[c] = "queued"
    /\ Cardinality(Running) < workers
    /\ pc' = [pc EXCEPT ![c] = "read"]
    /\ UNCHANGED <<oc, proc, workers, handles, lastAccept, buf, resp, out, owed>>
    /\ UNCHANGED parserVars
    /\ UNCHANGED mainVars

\* stream.read returns Ok(s) with the bytes b; the handler decodes one
\* Value of them and interprets it.  An abort ends the whole process.
Read(c) ==
    /\ proc = "running"
    /\ pc[c] = "read"
    /\ \E b \in Requests :
        /\ buf' = [buf EXCEPT ![c] = b]
        /\ out' = [out EXCEPT ![c] = <<>>]
        /\ pc' = [pc EXCEPT ![c] = HandleRead(b, oc).pc]
        /\ resp' = [resp EXCEPT ![c] = HandleRead(b, oc).resp]
        /\ owed' = [owed EXCEPT ![c] = IF HandleRead(b, oc).command THEN owed[c] + 1 ELSE 0]
        /\ proc' = IF HandleRead(b, oc).pc = "aborted" THEN "aborted" ELSE proc
    /\ UNCHANGED <<oc, workers, handles, lastAccept>>
    /\ UNCHANGED parserVars
    /\ UNCHANGED mainVars

\* stream.read returns Err: the while-let loop ends and the task returns Ok(())
ReadErr(c) ==
    /\ proc = "running"
    /\ pc[c] = "read"
    /\ pc' = [pc EXCEPT ![c] = "returned_ok"]
    /\ UNCHANGED <<oc, proc, workers, handles, lastAccept, buf, resp, out, owed>>
    /\ UNCHANGED parserVars
    /\ UNCHANGED mainVars

\* write_all returns Ok: the loop goes back to read
Write(c) ==
    /\ proc = "running"
    /\ pc[c] = "write"
    /\ out' = [out EXCEPT ![c] = out[c] \o resp[c]]
    /\ owed' = [owed EXCEPT ![c] = owed[c] - 1]
    /\ resp' = [resp EXCEPT ![c] = <<>>]
    /\ pc' = [pc EXCEPT ![c] = "read"]
    /\ UNCHANGED <<oc, proc, workers, handles, lastAccept, buf>>
    /\ UNCHANGED parserVars
    /\ UNCHANGED mainVars

\* write_all returns Err: the task returns the error
WriteErr(c) ==
    /\ proc = "running"
    /\ pc[c] = "write"
    /\ pc' = [pc EXCEPT ![c] = "write_failed"]
    /\ resp' = [resp EXCEPT ![c] = <<>>]
    /\ owed' = [owed EXCEPT ![c] = 0]
    /\ UNCHANGED <<oc, proc, workers, handles, lastAccept, buf, out>>
    /\ UNCHANGED parserVars
    /\ UNCHANGED mainVars

ServerNext ==
    \/ Accept
    \/ AcceptErr
    \/ \E c \in Conns : Start(c)
    \/ \E c \in Conns : Read(c)
    \/ \E c \in Conns : ReadErr(c)
    \/ \E c \in Conns : Write(c)
    \/ \E c \in Conns : WriteErr(c)

ServerSpec == ServerInit /\ [][ServerNext]_vars

(***************************************************************************)
(* The join of main (main.rs:24-29), reached when the for loop over         *)
(* listener.incoming() is left.  std's Incoming yields Some for ever, so as *)
(* the program stands the loop is left only with the process; IncomingEnds  *)
(* is the exit of the loop that lines 24-29 are written for, and JoinSpec   *)
(* the server with that exit.                                               *)
(***************************************************************************)
\* a task that came to its end
Finished(c) == pc[c] \in {"returned_ok", "failed", "write_failed", "panicked"}

\* the for loop over listener.incoming() is left
IncomingEnds ==
    /\ proc = "running"
    /\ mainpc = "accept"
    /\ mainpc' = "join"
    /\ UNCHANGED <<oc, proc, workers, handles, lastAccept, pc, buf, resp, out, owed, joined>>
    /\ UNCHANGED parserVars

\* t.await.map_err(|e| miette!(e))??: the await returns once the task came
\* to its end; a JoinError (the task panicked) and the task's own Err each
\* make main return that error at once, Ok(()) lets the loop go on
Await ==
    /\ proc = "running"
    /\ mainpc = "join"
    /\ joined < Len(handles)
    /\ Finished(handles[joined + 1])
    /\ IF pc[handles[joined + 1]] = "returned_ok"
       THEN joined' = joined + 1 /\ mainpc' = mainpc
       ELSE joined' = joined /\ mainpc' = "returned_err"
    /\ UNCHANGED <<oc, proc, workers, handles, lastAccept, pc, buf, resp, out, owed>>
    /\ UNCHANGED parserVars

\* every handle was awaited: Ok(())
Return ==
    /\ proc = "running"
    /\ mainpc = "join"
    /\ joined = Len(handles)
    /\ mainpc' = "returned_ok"
    /\ UNCHANGED <<oc, proc, workers, handles, lastAccept, pc, buf, resp, out, owed, joined>>
    /\ UNCHANGED parserVars

JoinNext == ServerNext \/ IncomingEnds \/ Await \/ Return

JoinSpec == ServerInit /\ [][JoinNext]_vars

\* What the scheduling guarantees: a worker thread that is free takes a
\* spawned task, and a write_all that was started returns.  Nothing makes a
\* peer send, so a read may block forever; nothing makes a client connect.
Fairness ==
    /\ \A c \in Conns : WF_vars(Start(c))
    /\ \A c \in Conns : WF_vars(Write(c) \/ WriteErr(c))

FairServerSpec == ServerSpec /\ Fairness

(***************************************************************************)
(* Properties of the server, under ServerSpec.                             *)
(***************************************************************************)
\* the requests whose first Value is a recognized command, and the response
\* each is owed
IsCommand(b) == b \in {ReqPing, ReqEcho, ReqTwo}
ExpectedResponse(b) ==
    IF b \in {ReqPing, ReqTwo} THEN <<43, 80, 79, 78, 71, 13, 10>>
    ELSE IF b = ReqEcho THEN <<36, 50, 13, 10, 104, 105, 13, 10>>
    ELSE <<>>

\* C7: a read whose buffer starts with a recognized command causes exactly
\* one response write before the next read, +PONG\r\n for Ping and the Echo
\* payload for Echo; what follows the first Value in the buffer causes none;
\* a buffer that starts with no command causes none.
C7_OneResponsePerRead ==
    \A c \in Conns :
        /\ IsCommand(buf[c]) =>
            /\ pc[c] \in {"write", "read", "write_failed", "returned_ok"}
            /\ pc[c] = "write" => (resp[c] = ExpectedResponse(buf[c]) /\ out[c] = <<>>)
            /\ pc[c] \in {"read", "returned_ok"} => out[c] = ExpectedResponse(buf[c])
            /\ pc[c] = "write_failed" => out[c] = <<>>
        /\ ~IsCommand(buf[c]) => (out[c] = <<>> /\ pc[c] # "write")

\* a handler read PING and ECHO in one buffer, wrote +PONG\r\n alone and is
\* back in read, while another handler is owed the payload of its ECHO
C7_Witness ==
    \E c, d \in Conns :
        /\ c # d
        /\ pc[c] = "read" /\ buf[c] = ReqTwo /\ out[c] = Pong
        /\ pc[d] = "write" /\ buf[d] = ReqEcho /\ resp[d] = BulkForm(<<104, 105>>)

\* a handler comes to its end by a failure
Fails(c) ==
    /\ pc[c] \in {"read", "write"}
    /\ pc'[c] \in {"failed", "write_failed", "panicked", "aborted"}

\* C8: a handler's failure leaves the acceptor accepting and every other
\* handler as it was.  Fails on the code: the count of an array header
\* goes to Vec::with_capacity unchecked (parser.rs:197), and a count whose
\* allocation cannot be served aborts the process, acceptor and all handlers
\* included.
C8_FailureIsolated ==
    [][\A c \in Conns :
          Fails(c) =>
              /\ proc' = "running"
              /\ handles' = handles
              /\ \A d \in Conns \ {c} :
                    /\ pc'[d] = pc[d] /\ buf'[d] = buf[d] /\ resp'[d] = resp[d]
                    /\ out'[d] = out[d] /\ owed'[d] = owed[d]]_vars

\* C9: the acceptor goes on accepting whatever the handlers do, and after
\* an accept error.  Fails on the code for the reason C8 does: a handler
\* whose decode call aborts the process ends the accept loop with it.
C9_AcceptorNeverBlocked ==
    Len(handles) < MaxConns => ENABLED Accept

\* C10: in one connection reads and response writes alternate: the handler
\* is in read only with every command answered, in write only with exactly
\* one command unanswered, and nothing is written but after a read that made
\* a command.
C10_ReadsAndWritesAlternate ==
    \A c \in Conns :
        /\ owed[c] \in {0, 1}
        /\ pc[c] = "read" => owed[c] = 0
        /\ pc[c] = "write" => (owed[c] = 1 /\ IsCommand(buf[c]))
        /\ out[c] # <<>> => IsCommand(buf[c])

\* a handler read an ECHO, wrote its response and only then is back in read
C10_Witness ==
    \E c \in Conns :
        pc[c] = "read" /\ owed[c] = 0 /\ buf[c] = ReqEcho
            /\ out[c] = BulkForm(<<104, 105>>)

\* a handler's read returns zero bytes (end of stream) or an error
StreamEnds(c) ==
    /\ pc[c] = "read"
    /\ pc'[c] # "read"
    /\ pc'[c] = "returned_ok" \/ buf'[c] = ReqEof

\* a handler that ended by returning
Returned(c) == pc[c] \in {"returned_ok", "failed", "write_failed"}

\* C11: a zero-length read and a read error end the handler: it returns at
\* once (Err("empty input") of the decoder for zero bytes, Ok(()) for a read
\* error), a handler that returned reads and writes nothing more, and the
\* step changes nothing of the acceptor, the process or any other handler.
C11_EndOfStreamEndsHandler ==
    [][\A c \in Conns :
          /\ StreamEnds(c) =>
                /\ Returned(c)'
                /\ resp'[c] = <<>>
                /\ proc' = "running" /\ handles' = handles /\ lastAccept' = lastAccept
                /\ \A d \in Conns \ {c} :
                      /\ pc'[d] = pc[d] /\ buf'[d] = buf[d] /\ resp'[d] = resp[d]
                      /\ out'[d] = out[d] /\ owed'[d] = owed[d]
          /\ Returned(c) =>
                /\ pc'[c] = pc[c] /\ buf'[c] = buf[c]
                /\ resp'[c] = resp[c] /\ out'[c] = out[c]]_vars

\* with one worker thread: a handler ended on a zero-length read, another on
\* a read error after it had answered a PING, and the acceptor accepted both
C11_Witness ==
    \E c, d \in Conns :
        /\ workers = 1 /\ proc = "running" /\ Len(handles) = MaxConns
        /\ pc[c] = "failed" /\ buf[c] = ReqEof /\ out[c] = <<>>
        /\ pc[d] = "returned_ok" /\ buf[d] = ReqPing /\ out[d] = Pong

(***************************************************************************)
(* Further properties of the decoder and the command interpreter, under    *)
(* Spec.                                                                   *)
(***************************************************************************)

\* C12: a call of next() on a decoder whose cursor is exhausted reports the
\* end of the sequence (None): it yields neither a Value nor an error.  Fails
\* on the code: next() is Some(self.parse_value()) whatever the cursor holds
\* (parser.rs:208-210), so the call yields Some(Err("empty input")), again
\* and again.
C12_ExhaustedYieldsNone ==
    [][(calls' = calls + 1 /\ cursor = <<>>)
          => res'.kind \notin {"ok", "err", "panic", "abort"}]_vars

\* C13: every decode error carries a byte offset o into the original
\* buffer, 0 <= o <= length of the buffer.  Fails on the code: the errors
\* made without labels ("empty input", a missing terminator) carry none, and
\* the offsets of parser.rs:125, 159, 186 subtract an adjustment that exceeds
\* the position of a unit at the start of the buffer.
C13_ErrorsCarryOffset ==
    res.kind = "err" => (res.labelled /\ 0 <= res.off /\ res.off <= Len(full))

\* the bytes the calls so far consumed
Consumed == Slice(full, 0, Len(full) - Len(cursor))

\* C14: the bytes of an accepted unit end with CR LF, and the first CR in
\* them is directly followed by LF.  Fails on the code: parse_string skips
\* the two bytes that follow the payload unread (parser.rs:167), parse_array
\* the byte after the CR (parser.rs:195), and parse_int looks for LF and CR
\* separately (parser.rs:104-119).
C14_UnitsEndWithCRLF ==
    (calls = 1 /\ res.kind = "ok")
        => /\ Len(Consumed) >= 2
           /\ Consumed[Len(Consumed) - 1] = CR
           /\ Consumed[Len(Consumed)] = LF
           /\ Position(Consumed, CR) >= 0
           /\ Consumed[Position(Consumed, CR) + 2] = LF

\* the first element of an Array is text
HasName(v) == v.t = "Array" /\ v.a # <<>> /\ v.a[1].t \in {"String", "Error"}

\* C15: a command is made only of an Array whose first element is text
\* naming ping or echo (and, for echo, whose second element is a String);
\* a non-Array fails with "incorrect command", an Array without a first text
\* element fails, another name fails with an error naming it, and echo
\* without a String argument fails.
C15_OnlyCommandsInterpreted ==
    cmd.kind # "none" =>
        /\ res.val.t # "Array" => cmd = CmdErr("incorrect command")
        /\ (res.val.t = "Array" /\ ~HasName(res.val)) => cmd.kind = "err"
        /\ (HasName(res.val) /\ ~EqIgnoreCase(res.val.a[1].s, PingName)
                /\ ~EqIgnoreCase(res.val.a[1].s, EchoName))
              => (cmd.kind = "err" /\ EqIgnoreCase(cmd.got, res.val.a[1].s))
        /\ (HasName(res.val) /\ EqIgnoreCase(res.val.a[1].s, EchoName)
                /\ (Len(res.val.a) < 2 \/ res.val.a[2].t # "String"))
              => cmd.kind = "err"
        /\ cmd.kind \in {"Ping", "Echo"} =>
              /\ HasName(res.val)
              /\ cmd.kind = "Ping" => EqIgnoreCase(res.val.a[1].s, PingName)
              /\ cmd.kind = "Echo" =>
                    /\ EqIgnoreCase(res.val.a[1].s, EchoName)
                    /\ Len(res.val.a) >= 2 /\ res.val.a[2].t = "String"

\* an echo whose argument is an Error text was refused
C15_Witness ==
    /\ cmd = CmdErr("missing echo argument")
    /\ HasName(res.val) /\ EqIgnoreCase(res.val.a[1].s, EchoName)
    /\ Len(res.val.a) = 2 /\ res.val.a[2].t = "Error"

\* x is a suffix of y
IsSuffix(x, y) == Len(x) <= Len(y) /\ x = SliceFrom(y, Len(y) - Len(x))

\* C16: the cursor is a suffix of the original buffer in every state; no
\* call, successful or failing, makes it longer or changes the original
\* buffer; a successful call makes it shorter.
C16_CursorInvariant ==
    /\ [](IsSuffix(cursor, full))
    /\ [][/\ full' = full
          /\ Len(cursor') <= Len(cursor)
          /\ (calls' = calls + 1 /\ res'.kind = "ok") => Len(cursor') < Len(cursor)]_vars

\* a second call succeeded on what the first left, and bytes remain
C16_Witness ==
    /\ calls = 2 /\ res.kind = "ok"
    /\ cursor # <<>> /\ cursor # full /\ IsSuffix(cursor, full)

\* C17: over a buffer u1 ++ u2 of well-formed units the first call returns
\* the Value of u1 and leaves the cursor at the start of u2, the second
\* returns the Value of u2 and leaves the cursor empty.  Fails on the code
\* for a bulk string that holds a CR, cut at that CR (see C2, C3).
C17_ConsumesExactlyTheUnit ==
    (sent.fam = "pair" /\ calls >= 1)
        => /\ res.kind = "ok"
           /\ res.val = sent.units[calls]
           /\ cursor = (IF calls = 1 THEN Wire(sent.units[2]) ELSE <<>>)

\* C18: a call that fails leaves the cursor where it was before the call.
\* Fails on the code: parse_array moves the cursor past the header before
\* it decodes the elements (parser.rs:195) and past each element that
\* decodes, and an element's failure leaves it there.
C18_FailureConsumesNothing ==
    [][(calls' = calls + 1 /\ res'.kind = "err") => cursor' = cursor]_vars

(***************************************************************************)
(* Liveness of the server, under FairServerSpec.                           *)
(***************************************************************************)

\* C19: a connection that was accepted eventually has its handler run
\* while every other accepted connection is idle, its handler sitting in a
\* read whose peer sends nothing (the handler of a peer that sends PING then
\* answers +PONG\r\n, see C7).  Fails
\* on the code: handle_connection blocks its worker thread in stream.read
\* (main.rs:35), so with as many idle connections as worker threads no
\* thread is left to run the task of a further connection.
C19_ServedDespiteIdlePeers ==
    \A c \in Conns :
        (pc[c] = "queued")
            ~> \/ pc[c] # "queued"
               \/ proc = "aborted"
               \/ \E d \in Conns \ {c} : pc[d] \notin {"unborn", "read"}

(***************************************************************************)
(* The join, under JoinSpec.                                               *)
(***************************************************************************)

====
